---- MODULE Spec2Model ----
(***************************************************************************)
(* Model of the Mapsy settings panel: the Wix integration module           *)
(* (src/src/wix-integration.ts), the compact settings panel                *)
(* (src/unnamed/part_000, WidgetSettingsCompact) and the REST services     *)
(* (src/src/services/api.ts, and the axios version kept in                 *)
(* src/src/components/WixSettingsPanel.tsx).                               *)
(*                                                                         *)
(* JavaScript is single threaded: every action below is one run-to-        *)
(* completion step of the event loop, from an event (module load, a user   *)
(* event, the resolution of an RPC or HTTP promise) up to the next await   *)
(* that waits on the outside world.  An await on an already settled        *)
(* promise only defers to the microtask queue, which is drained before     *)
(* any other event is handled, so such a continuation belongs to the same  *)
(* action.                                                                 *)
(***************************************************************************)
EXTENDS Integers, Sequences, FiniteSets, TLC

VARIABLES
    \* ---- wix-integration.ts module state
    wixClient,       \* 0 = null, n > 0 = the client made by the n-th createClient
    instanceToken,   \* string, NULL when absent
    compId,          \* string, NULL when absent
    isInitialized,   \* BOOLEAN
    initPc,          \* per caller of initializeWixClient: where the call stands
    initResult,      \* per caller: "none", "true", "false" (the resolved value)
    initThrew,       \* per caller: which SDK calls threw during the call
    initArg,         \* per caller: the value handed to the pending setProp('compId', ..)
    createCount,     \* number of createClient invocations so far
    genCount,        \* number of generateCompId invocations so far
    \* ---- the host (Wix editor, widget frame)
    faults,          \* the calls to the outside that can fail in this environment
    sdkWidget,       \* the client offers widget.getProp / widget.setProp
    siteProps,       \* widget props persisted in site data: compId, config
    widgetMsg,       \* last message received by the widget frame
    \* ---- REST backend
    serverConfig,    \* the widget config stored by the backend
    inflight,        \* the widget-config requests awaiting their response
    \* ---- WidgetSettingsCompact
    config, loading, saving, dashboardUrl,
    localStorage,    \* item 'mapsy-widget-config': a JSON text, NoItem when absent
    toast,           \* last toast shown
    saveCfg,         \* the config captured by the running handleSave closure
    saveLog,         \* effects of the current/last handleSave, in order
    pushes,          \* updateWidgetConfig calls awaiting their setProp, in start order
    \* ---- observation (history) variables
    lastOp,          \* name of the last step taken
    lastPush,        \* report of the updateWidgetConfig call that completed last
    lastStarted,     \* the updateWidgetConfig call that was started last
    inOrder,         \* all completed setProp calls resolved in the order they were issued
    pushFailed,      \* some updateWidgetConfig call met an SDK or postMessage error
    nEdits,          \* number of updateWidgetPreview calls since mount
    nSaves,          \* number of handleSave calls since mount
    changedInSave,   \* the panel's config has changed since the last handleSave began
    confirmed,       \* the config texts the backend has confirmed (GET data, resolved PUT bodies)
    \* ---- locationService
    sdkFetch,        \* the client offers fetchWithAuth
    apiCall,         \* the locationService call under way or completed last
    nCalls,          \* number of locationService calls so far
    \* ---- getDashboardUrl
    urlCall          \* the getDashboardUrl call made last: its argument and result

intVars   == <<wixClient, instanceToken, compId, isInitialized, initPc, initResult,
               initThrew, initArg, createCount, genCount>>
hostVars  == <<faults, sdkWidget, siteProps, widgetMsg>>
pushVars  == <<pushes, lastPush, lastStarted, inOrder, pushFailed>>
panelVars == <<config, loading, saving, dashboardUrl, localStorage, toast,
               saveCfg, saveLog, nEdits, nSaves, changedInSave, confirmed>>
backVars  == <<serverConfig, inflight>>
apiVars   == <<sdkFetch, apiCall, nCalls, urlCall>>
vars      == <<intVars, hostVars, pushVars, panelVars, backVars, apiVars, lastOp>>

----------------------------------------------------------------------------
(* Values *)

NULL == "null"
NoItem == <<>>

\* at most this many user operations (settings edits, clicks on Save) after mount
MaxOps == 2

\* the calls to the outside world whose failure the code handles
FaultKinds == {"createClient", "getProp", "setProp", "configProp", "postMessage",
               "frame", "backend"}

\* whether a call of kind k throws (rejects) this time
Throws(k) == IF k \in faults THEN BOOLEAN ELSE {FALSE}

Callers == {"auto", "mount"}

\* ids produced by generateCompId: `comp-${Date.now()}-${random}`, each call a new one
GeneratedIds == <<"comp-t1-r1", "comp-t2-r2", "comp-t3-r3">>
SiteCompId == "comp-site"

Truthy(v) == v \notin {NULL, ""}

Views == {"map", "list"}
DefaultConfig == [defaultView |-> "map", showHeader |-> FALSE]
BaseConfigs == [defaultView : Views, showHeader : BOOLEAN]

\* the auth block the backend may attach to GET /widget-config
AuthInfos == { [instanceToken |-> "srv-token", compId |-> NULL],
               [instanceToken |-> NULL, compId |-> "srv-comp"] }

\* data.auth when the response carries no auth block (undefined)
NoAuth == [absent |-> TRUE]

BaseUrl == "https://mapsy-dashboard.nextechspires.com/"

\* mutant: setConfig(configUpdate), the other fields dropped
MergeConfig_Replace(prev, configUpdate) == configUpdate

\* { ...prev, ...configUpdate }
MergeConfig(prev, configUpdate) ==
    [k \in (DOMAIN prev) \cup (DOMAIN configUpdate) |->
        IF k \in DOMAIN configUpdate THEN configUpdate[k] ELSE prev[k]]

\* JSON.stringify of a config: the text as a sequence of tokens
JSONstringify(cfg) ==
    LET enc(k) ==
          IF k \notin DOMAIN cfg THEN <<>>
          ELSE IF k = "showHeader"
               THEN <<k, IF cfg[k] THEN "true" ELSE "false">>
          ELSE IF k = "auth"
               THEN <<k, cfg[k].instanceToken, cfg[k].compId>>
          ELSE <<k, cfg[k]>>
    IN  enc("defaultView") \o enc("showHeader") \o enc("auth")

\* JSON.parse of such a text
RECURSIVE JSONparse(_)
JSONparse(s) ==
    IF Len(s) < 2 THEN <<>>
    ELSE IF s[1] = "auth"
         THEN ("auth" :> [instanceToken |-> s[2], compId |-> s[3]])
              @@ JSONparse(SubSeq(s, 4, Len(s)))
    ELSE IF s[1] = "showHeader"
         THEN ("showHeader" :> (s[2] = "true")) @@ JSONparse(SubSeq(s, 3, Len(s)))
    ELSE (s[1] :> s[2]) @@ JSONparse(SubSeq(s, 3, Len(s)))

NoMsg == [type |-> "none"]
NoPush == [by |-> "none"]
NoUrlCall == [result |-> "none"]
NoCall == [stage |-> "none"]

Frames == {"widget", "other"}

----------------------------------------------------------------------------
(* Initial state: the module has been evaluated up to its last statement   *)
(* (the auto-initialisation) and the component's useState initialisers     *)
(* have run.                                                               *)

\* useState(() => cached ? JSON.parse(cached) : defaults)
InitialConfig(cached) == IF cached # NoItem THEN JSONparse(cached) ELSE DefaultConfig

InitBase ==
    /\ wixClient = 0
    /\ instanceToken \in {NULL, "url-token"}
    /\ compId = NULL
    /\ isInitialized = FALSE
    /\ initPc = [c \in Callers |-> "idle"]
    /\ initResult = [c \in Callers |-> "none"]
    /\ initThrew = [c \in Callers |-> {}]
    /\ initArg = [c \in Callers |-> NULL]
    /\ createCount = 0
    /\ genCount = 0
    /\ sdkWidget \in BOOLEAN
    /\ siteProps \in [compId : {NULL, SiteCompId}, config : {NoItem}]
    /\ widgetMsg = NoMsg
    /\ serverConfig \in BaseConfigs
    /\ inflight = {}
    /\ localStorage \in {NoItem, JSONstringify([defaultView |-> "list", showHeader |-> FALSE])}
    /\ config = InitialConfig(localStorage)
    /\ loading = (localStorage = NoItem)
    /\ saving = FALSE
    /\ dashboardUrl = [base |-> BaseUrl, query |-> <<>>]
    /\ toast = "none"
    /\ saveCfg = DefaultConfig
    /\ saveLog = <<>>
    /\ pushes = <<>>
    /\ lastOp = "load"
    /\ lastPush = NoPush
    /\ lastStarted = NoPush
    /\ inOrder = TRUE
    /\ pushFailed = FALSE
    /\ nEdits = 0
    /\ nSaves = 0
    /\ changedInSave = FALSE
    /\ confirmed = {localStorage} \ {NoItem}
    /\ sdkFetch = FALSE
    /\ apiCall = NoCall
    /\ nCalls = 0
    /\ urlCall = NoUrlCall

\* the panel opened without an instance in the URL, in an environment where
\* the backend can fail
Init ==
    /\ InitBase
    /\ faults = {"backend"}
    /\ instanceToken = NULL
    /\ serverConfig = [defaultView |-> "list", showHeader |-> TRUE]

\* the panel once both initializeWixClient calls and fetchConfig have completed,
\* in an environment where setProp('config', ..) and postMessage can fail
InitPreview ==
    /\ faults = {"configProp", "postMessage", "frame"}
    /\ sdkWidget \in BOOLEAN
    /\ wixClient \in {0, 1}
    /\ instanceToken = NULL
    /\ compId = SiteCompId
    /\ isInitialized = TRUE
    /\ initPc = [c \in Callers |-> "done"]
    /\ initResult = [c \in Callers |-> IF wixClient = 0 THEN "false" ELSE "true"]
    /\ initThrew = [c \in Callers |-> {}]
    /\ initArg = [c \in Callers |-> NULL]
    /\ createCount = IF wixClient = 0 THEN 2 ELSE 1
    /\ genCount = 0
    /\ siteProps = [compId |-> SiteCompId, config |-> NoItem]
    /\ widgetMsg = NoMsg
    /\ serverConfig \in BaseConfigs
    /\ inflight = {}
    /\ config = serverConfig
    /\ localStorage = JSONstringify(serverConfig)
    /\ loading = FALSE
    /\ saving = FALSE
    /\ dashboardUrl = [base |-> BaseUrl, query |-> << <<"compId", SiteCompId>> >>]
    /\ toast = "none"
    /\ saveCfg = DefaultConfig
    /\ saveLog = <<>>
    /\ pushes = <<>>
    /\ lastOp = "fetchConfigOk"
    /\ lastPush = NoPush
    /\ lastStarted = NoPush
    /\ inOrder = TRUE
    /\ pushFailed = FALSE
    /\ nEdits = 0
    /\ nSaves = 0
    /\ changedInSave = FALSE
    /\ confirmed = {localStorage}
    /\ sdkFetch = FALSE
    /\ apiCall = NoCall
    /\ nCalls = 0
    /\ urlCall = NoUrlCall

\* the integration module in an environment where the SDK can fail
InitIntegration == InitBase /\ faults = {"createClient", "getProp", "setProp"}

----------------------------------------------------------------------------
(* wix-integration.ts: initializeWixClient                                 *)

\* mutant: the early return dropped
AlreadyInitialized_Never == FALSE

\* if (isInitialized && wixClient) return true;
AlreadyInitialized == isInitialized /\ wixClient # 0

\* wixClient.widget && wixClient.widget.getProp / .setProp
WidgetPropsAvailable == sdkWidget

\* generateCompId(): a value no earlier call returned
NewCompId == GeneratedIds[genCount + 1]

\* GET /widget-config as widgetConfigService.getConfig issues it
GetConfigReq == [op |-> "getConfig", method |-> "GET", path |-> "/widget-config",
                 body |-> NoItem]

\* fetchConfig up to its await: setLoading(true); getConfig()
FetchConfigStart ==
    /\ loading' = TRUE
    /\ inflight' = inflight \cup {GetConfigReq}

\* the promise of caller c settles with `value`; the mount effect goes on to
\* fetchConfig in the same microtask run
Resolve(c, value) ==
    /\ initPc' = [initPc EXCEPT ![c] = "done"]
    /\ initResult' = [initResult EXCEPT ![c] = value]
    /\ IF c = "mount" THEN FetchConfigStart ELSE UNCHANGED <<loading, inflight>>

\* caller c stops at an await on the SDK
Suspend(c, at) ==
    /\ initPc' = [initPc EXCEPT ![c] = at]
    /\ UNCHANGED <<initResult, loading, inflight>>

\* if (!compId) compId = generateCompId();  (try block and catch block alike)
EnsureCompId(cur) == IF ~Truthy(cur) THEN NewCompId ELSE cur

\* mutant: true returned from the outer catch as well
InitValue_AlwaysTrue(createThrew) == "true"

\* value returned by a call whose createClient threw / did not throw
InitValue(createThrew) == IF createThrew THEN "false" ELSE "true"

initRest == <<config, saving, dashboardUrl, localStorage, toast, saveCfg, saveLog,
              nEdits, nSaves, changedInSave, confirmed, serverConfig, widgetMsg,
              sdkWidget, faults, apiVars>>

\* initializeWixClient() from its first statement to its first await or return,
\* `already` being the test it starts with
InitializeFrom(c, already) ==
    /\ initPc[c] = "idle"
    /\ c = "mount" => initPc["auto"] # "idle"
    /\ lastOp' = "initializeWixClient"
    /\ UNCHANGED <<initRest, pushVars, siteProps, instanceToken, initArg>>
    /\ \/ /\ already
          /\ Resolve(c, "true")
          /\ UNCHANGED <<wixClient, compId, isInitialized, initThrew, createCount, genCount>>
       \/ /\ ~already
          /\ createCount' = createCount + 1
          /\ \/ \* createClient (or editor.host()) throws: the outer catch
                /\ TRUE \in Throws("createClient")
                /\ wixClient' = wixClient
                /\ compId' = EnsureCompId(compId)
                /\ genCount' = IF ~Truthy(compId) THEN genCount + 1 ELSE genCount
                /\ isInitialized' = TRUE
                /\ initThrew' = [initThrew EXCEPT ![c] = @ \cup {"createClient"}]
                /\ Resolve(c, InitValue(TRUE))
             \/ \* createClient returns and getProp is awaited
                /\ WidgetPropsAvailable
                /\ wixClient' = createCount + 1
                /\ Suspend(c, "getProp")
                /\ UNCHANGED <<compId, isInitialized, initThrew, genCount>>
             \/ \* createClient returns a client without widget.getProp/setProp
                /\ ~WidgetPropsAvailable
                /\ wixClient' = createCount + 1
                /\ compId' = EnsureCompId(compId)
                /\ genCount' = IF ~Truthy(compId) THEN genCount + 1 ELSE genCount
                /\ isInitialized' = TRUE
                /\ initThrew' = initThrew
                /\ Resolve(c, InitValue(FALSE))

\* initializeWixClient of src/src/wix-integration.ts
InitializeWixClient(c) == InitializeFrom(c, AlreadyInitialized)

\* the earlier version of the module (part_002:99-163, part_003:84-130):
\* if (isInitialized) return true;
AlreadyInitializedV2 == isInitialized

\* initializeWixClient of that version; the rest of the function is the same
InitializeWixClientV2(c) == InitializeFrom(c, AlreadyInitializedV2)

\* mutant: the value read from site data ignored
HeldCompId_IgnoreSite(existingCompId, cur) == cur

\* if (existingCompId) compId = existingCompId: the compId held afterwards
HeldCompId(existingCompId, cur) ==
    IF Truthy(existingCompId) THEN existingCompId ELSE cur

\* await wixClient.widget.getProp('compId') settles
GetPropReturn(c) ==
    /\ initPc[c] = "getProp"
    /\ lastOp' = "getPropReturn"
    /\ UNCHANGED <<initRest, pushVars, siteProps, instanceToken, wixClient, createCount>>
    /\ \E threw \in Throws("getProp") :
         LET existingCompId == IF threw THEN NULL ELSE siteProps.compId
             held == HeldCompId(existingCompId, compId)
         IN  /\ initThrew' = [initThrew EXCEPT
                                ![c] = IF threw THEN @ \cup {"getProp"} ELSE @]
             /\ IF ~Truthy(held)
                THEN /\ compId' = NewCompId
                     /\ genCount' = genCount + 1
                     /\ IF WidgetPropsAvailable
                        THEN /\ initArg' = [initArg EXCEPT ![c] = NewCompId]
                             /\ Suspend(c, "setProp")
                             /\ UNCHANGED isInitialized
                        ELSE /\ isInitialized' = TRUE
                             /\ Resolve(c, InitValue("createClient" \in initThrew[c]))
                             /\ UNCHANGED initArg
                ELSE /\ compId' = held
                     /\ isInitialized' = TRUE
                     /\ Resolve(c, InitValue("createClient" \in initThrew[c]))
                     /\ UNCHANGED <<genCount, initArg>>

\* await wixClient.widget.setProp('compId', compId) settles
SetPropReturn(c) ==
    /\ initPc[c] = "setProp"
    /\ lastOp' = "setPropReturn"
    /\ UNCHANGED <<initRest, pushVars, instanceToken, wixClient, createCount, compId,
                   genCount, initArg>>
    /\ \E threw \in Throws("setProp") :
         /\ siteProps' = IF threw THEN siteProps
                         ELSE [siteProps EXCEPT !.compId = initArg[c]]
         /\ initThrew' = [initThrew EXCEPT
                            ![c] = IF threw THEN @ \cup {"setProp"} ELSE @]
    /\ isInitialized' = TRUE
    /\ Resolve(c, InitValue("createClient" \in initThrew[c]))

----------------------------------------------------------------------------
(* wix-integration.ts: updateWidgetProperty / updateWidgetConfig           *)

\* !wixClient || !wixClient.widget || !wixClient.widget.setProp  (negated)
SetPropAvailable == wixClient # 0 /\ sdkWidget

\* the message object built by updateWidgetConfig (its timestamp left out)
ConfigMessage(cfg) ==
    [type |-> "MAPSY_CONFIG_UPDATE", config |-> cfg, source |-> "settings-panel"]

\* what the postMessage block can meet: window.parent.postMessage throws, or
\* some frames refuse the message (caught per frame)
PostOutcomes ==
    {[parentThrows |-> TRUE, blocked |-> {}] : t \in Throws("postMessage") \ {FALSE}}
    \cup {[parentThrows |-> FALSE, blocked |-> b] :
             b \in IF "frame" \in faults THEN SUBSET Frames ELSE {{}}}

\* mutant: the SDK result returned whatever the posting step did
UpdateResult_SdkResult(wixResult, postThrew) == wixResult

\* the value updateWidgetConfig resolves to
UpdateResult(wixResult, postThrew) == IF postThrew THEN wixResult ELSE TRUE

\* whether the postMessage block is entered, given the outcome of Method 1
PostsAfter(sdk) == TRUE

\* Method 2 of updateWidgetConfig, after updateWidgetProperty settled with `sdk`
PostConfig(cfg, by, sdk, out) ==
    LET posts == PostsAfter(sdk)
        sent  == posts /\ ~out.parentThrows
    IN  /\ widgetMsg' = IF sent /\ "widget" \notin out.blocked
                        THEN ConfigMessage(cfg) ELSE widgetMsg
        /\ lastPush' = [by |-> by, config |-> cfg, sdk |-> sdk,
                        postThrew |-> posts /\ out.parentThrows,
                        returned |-> IF posts
                                     THEN UpdateResult(sdk = "ok", out.parentThrows)
                                     ELSE sdk = "ok",
                        posted |-> IF sent THEN ConfigMessage(cfg) ELSE NoMsg,
                        frames |-> IF sent THEN Frames \ out.blocked ELSE {}]
        /\ pushFailed' = (pushFailed \/ sdk # "ok" \/ out.parentThrows
                            \/ out.blocked # {})

\* updateWidgetConfig(cfg) from its call to its first await on the SDK; without
\* a usable setProp updateWidgetProperty returns false at once and the message
\* is posted in the same run
UpdateWidgetConfig(cfg, by) ==
    /\ lastStarted' = [by |-> by, config |-> cfg]
    /\ IF SetPropAvailable
       THEN /\ pushes' = Append(pushes, [by |-> by, config |-> cfg])
            /\ UNCHANGED <<widgetMsg, lastPush, pushFailed, inOrder>>
       ELSE /\ \E out \in PostOutcomes : PostConfig(cfg, by, "unavailable", out)
            /\ UNCHANGED <<pushes, inOrder>>

----------------------------------------------------------------------------
(* WidgetSettingsCompact                                                   *)

\* the component has rendered and its mount effect has run; the effect is
\* flushed before the first user event is handled
Mounted == initPc["mount"] # "idle"

\* the partial configs the form controls pass to updateWidgetPreview
ConfigUpdates ==
    {[defaultView |-> v] : v \in Views} \cup {[showHeader |-> ~config.showHeader]}

\* updateWidgetPreview(configUpdate)
UpdateWidgetPreview(configUpdate) ==
    /\ Mounted
    /\ ~loading
    /\ nEdits + nSaves < MaxOps
    /\ LET newConfig == MergeConfig(config, configUpdate)
       IN  /\ config' = newConfig
           /\ UpdateWidgetConfig(newConfig, "edit")
    /\ nEdits' = nEdits + 1
    /\ changedInSave' = TRUE
    /\ lastOp' = "updateWidgetPreview"
    /\ UNCHANGED <<apiVars, intVars, faults, sdkWidget, siteProps, backVars, loading, saving,
                   dashboardUrl, localStorage, toast, saveCfg, saveLog, nSaves,
                   confirmed>>

\* PUT /widget-config as widgetConfigService.updateConfig issues it
UpdateConfigReq(cfg) == [op |-> "updateConfig", method |-> "PUT",
                         path |-> "/widget-config", body |-> JSONstringify(cfg)]

\* handleSave up to its first await
HandleSave ==
    /\ Mounted
    /\ ~loading
    /\ ~saving
    /\ nEdits + nSaves < MaxOps
    /\ nSaves' = nSaves + 1
    /\ saving' = TRUE
    /\ saveCfg' = config
    /\ inflight' = inflight \cup {UpdateConfigReq(config)}
    /\ saveLog' = <<"updateConfig">>
    /\ changedInSave' = FALSE
    /\ lastOp' = "handleSave"
    /\ UNCHANGED <<apiVars, intVars, hostVars, pushVars, serverConfig, config, loading,
                   dashboardUrl, localStorage, toast, nEdits, confirmed>>

\* mutant: the success toast shown whatever the outcome
SaveToast_AlwaysSuccess(ok) == "Settings saved!"

\* the toast handleSave ends with
SaveToast(ok) == IF ok THEN "Settings saved!" ELSE "Failed to save settings"

\* mutant: the cache written from the panel's latest config
SavedText_Current == JSONstringify(config)

\* JSON.stringify(config) in handleSave: the config its closure captured
SavedText == JSONstringify(saveCfg)

\* the config handleSave hands to updateWidgetConfig
SavePushConfig == saveCfg

\* the tail of handleSave once updateWidgetConfig has settled
SaveFinish(log) ==
    /\ localStorage' = SavedText
    /\ toast' = SaveToast(TRUE)
    /\ saving' = FALSE
    /\ saveLog' = log \o <<"setItem", "toast.success">>

\* what the backend keeps of a PUT body: the widget settings
Stored(body) == [k \in (DOMAIN JSONparse(body)) \ {"auth"} |-> JSONparse(body)[k]]

\* handleSave resumes: widgetConfigService.updateConfig settled
SaveBackendReturn(ok) ==
    /\ \E r \in inflight :
         /\ r.op = "updateConfig"
         /\ inflight' = inflight \ {r}
         /\ \E applied \in BOOLEAN :
              \* a request that failed may or may not have been applied
              serverConfig' = IF ok \/ applied THEN Stored(r.body) ELSE serverConfig
         /\ confirmed' = IF ok THEN confirmed \cup {r.body} ELSE confirmed
    /\ lastOp' = IF ok THEN "saveBackendOk" ELSE "saveBackendFailed"
    /\ UNCHANGED <<apiVars, intVars, faults, sdkWidget, siteProps, config, loading,
                   dashboardUrl, saveCfg, nEdits, nSaves, changedInSave>>
    /\ IF ok
       THEN /\ UpdateWidgetConfig(SavePushConfig, "save")
            /\ IF SetPropAvailable
               THEN /\ saveLog' = Append(saveLog, "updateWidgetConfig")
                    /\ UNCHANGED <<localStorage, toast, saving>>
               ELSE SaveFinish(Append(saveLog, "updateWidgetConfig"))
       ELSE /\ toast' = SaveToast(FALSE)
            /\ saving' = FALSE
            /\ saveLog' = Append(saveLog, "toast.error")
            /\ UNCHANGED <<pushVars, widgetMsg, localStorage>>

\* String(value) of the JSON text handed to setProp
String(value) == value

\* an updateWidgetConfig call resumes: its setProp('config', ..) settled
SetConfigPropReturn(i, threw, out) ==
    /\ i \in 1..Len(pushes)
    /\ LET p == pushes[i]
       IN  /\ siteProps' = IF threw THEN siteProps
                           ELSE [siteProps EXCEPT
                                   !.config = String(JSONstringify(p.config))]
           /\ PostConfig(p.config, p.by, IF threw THEN "throw" ELSE "ok", out)
           /\ IF p.by = "save"
              THEN SaveFinish(saveLog)
              ELSE UNCHANGED <<localStorage, toast, saving, saveLog>>
    /\ pushes' = [j \in 1..(Len(pushes) - 1) |->
                    IF j < i THEN pushes[j] ELSE pushes[j + 1]]
    /\ inOrder' = (inOrder /\ i = 1)
    /\ lastOp' = "setConfigPropReturn"
    /\ UNCHANGED <<apiVars, intVars, faults, sdkWidget, backVars, config, loading,
                   dashboardUrl, saveCfg, nEdits, nSaves, changedInSave, confirmed,
                   lastStarted>>

\* buildDashboardUrl(authInfo): the URL it stores
DashboardUrl(authInfo, currentCompId) ==
    LET tok == IF authInfo = NoAuth THEN NULL ELSE authInfo.instanceToken
        cid == IF authInfo # NoAuth /\ Truthy(authInfo.compId)
               THEN authInfo.compId ELSE currentCompId
    IN  [base |-> BaseUrl,
         query |-> (IF Truthy(tok) THEN << <<"instance", tok>> >> ELSE <<>>)
                   \o (IF Truthy(cid) THEN << <<"compId", cid>> >> ELSE <<>>)]

\* the body of a successful GET /widget-config
ServerData(auth) ==
    IF auth = NoAuth THEN serverConfig ELSE MergeConfig(serverConfig, [auth |-> auth])

\* setConfig(data): what fetchConfig makes the panel's config
FetchedConfig(data) == data

\* fetchConfig resumes: widgetConfigService.getConfig settled
FetchConfigReturn(ok, auth) ==
    /\ GetConfigReq \in inflight
    /\ inflight' = inflight \ {GetConfigReq}
    /\ loading' = FALSE
    /\ lastOp' = IF ok THEN "fetchConfigOk" ELSE "fetchConfigFailed"
    /\ UNCHANGED <<apiVars, wixClient, compId, isInitialized, initPc, initResult, initThrew,
                   initArg, createCount, genCount, hostVars, pushVars, serverConfig,
                   saving, saveCfg, saveLog, nEdits, nSaves>>
    /\ IF ok
       THEN LET data == ServerData(auth)
            IN  /\ config' = FetchedConfig(data)
                /\ changedInSave' = TRUE
                /\ confirmed' = confirmed \cup {JSONstringify(data)}
                /\ localStorage' = JSONstringify(data)
                /\ instanceToken' = IF auth # NoAuth /\ Truthy(auth.instanceToken)
                                    THEN auth.instanceToken ELSE instanceToken
                /\ dashboardUrl' = DashboardUrl(auth, compId)
                /\ toast' = toast
       ELSE /\ toast' = IF localStorage = NoItem THEN "Failed to load settings"
                        ELSE toast
            /\ UNCHANGED <<config, localStorage, instanceToken, dashboardUrl,
                           changedInSave, confirmed>>

----------------------------------------------------------------------------
(* services/api.ts: locationService over apiRequest / apiFormDataRequest   *)
(* and fetchWithAuth; WixSettingsPanel.tsx: locationService over axios     *)

\* at most this many locationService calls
MaxCalls == 2

API_URL == "https://mapsy-api.nextechspires.com/api"

LocationOps == {"getAll", "getOne", "create", "update", "delete"}
LocationIds == {"7", "8"}

\* the ids an operation can be called with: getAll and create take none
IdsOf(op) == IF op \in {"getAll", "create"} THEN {NULL} ELSE LocationIds

\* the instance tokens that start with 'Bearer '
BearerTokens == {"Bearer url-token"}

\* mutant: the id left out of the path
LocationPath_NoId(id) == <<"/locations">>

\* the template literal `/locations/${id}`
LocationPath(id) == <<"/locations/", id>>

\* locationService (both versions): endpoint and method of each operation;
\* `form` tells the FormData operations from the others
LocationRequest(op, id) ==
    CASE op = "getAll" -> [endpoint |-> <<"/locations">>, method |-> "GET", form |-> FALSE]
      [] op = "getOne" -> [endpoint |-> LocationPath(id), method |-> "GET", form |-> FALSE]
      [] op = "create" -> [endpoint |-> <<"/locations">>, method |-> "POST", form |-> TRUE]
      [] op = "update" -> [endpoint |-> LocationPath(id), method |-> "POST", form |-> TRUE]
      [] op = "delete" -> [endpoint |-> LocationPath(id), method |-> "DELETE", form |-> FALSE]

\* `${API_URL}${endpoint}`
Url(endpoint) == <<API_URL>> \o endpoint

\* the headers option: apiRequest passes none, apiFormDataRequest passes the
\* component id when there is one
OptionHeaders(form) ==
    IF form /\ Truthy(compId) THEN "X-Wix-Comp-Id" :> compId ELSE <<>>

\* mutant: the component id header left to the caller's options
AuthHeaders_NoCompId(optHeaders) ==
    optHeaders @@ ("Content-Type" :> "application/json")

\* fetchWithAuth: the headers it builds before it picks a channel
AuthHeaders(optHeaders) ==
    LET merged == optHeaders @@ ("Content-Type" :> "application/json")
    IN  IF Truthy(compId) THEN ("X-Wix-Comp-Id" :> compId) @@ merged ELSE merged

\* mutant: the prefix added whatever the token starts with
Authorization_AlwaysPrefix(tok) == <<"Bearer ", tok>>

\* the Authorization value of the plain fetch
Authorization(tok) == IF tok \in BearerTokens THEN <<tok>> ELSE <<"Bearer ", tok>>

\* fetchWithAuth: the headers of the plain fetch
FallbackHeaders(h) ==
    IF Truthy(instanceToken)
    THEN ("Authorization" :> Authorization(instanceToken)) @@ h ELSE h

\* the axios instance's headers after the request interceptor
AxiosHeaders(form) ==
    LET base == "Content-Type" :> (IF form THEN "multipart/form-data"
                                           ELSE "application/json")
        auth == IF Truthy(instanceToken)
                THEN ("Authorization" :> <<"Bearer ", instanceToken>>) @@ base ELSE base
    IN  IF Truthy(compId) THEN ("X-Wix-Comp-Id" :> compId) @@ auth ELSE auth

\* one HTTP request as the backend sees it
HttpRequest(via, req, headers) ==
    [via |-> via, method |-> req.method, url |-> Url(req.endpoint), headers |-> headers]

\* wixClient && wixClient.fetchWithAuth
SdkFetchAvailable == wixClient # 0 /\ sdkFetch

apiRest == <<intVars, hostVars, pushVars, panelVars, backVars, sdkFetch, urlCall>>

\* locationService.<op>(id) of services/api.ts up to its first await on the
\* network: the SDK's fetchWithAuth when the client has one, else plain fetch
LocationCall(op, id) ==
    /\ apiCall.stage \in {"none", "done"}
    /\ nCalls < MaxCalls
    /\ nCalls' = nCalls + 1
    /\ LET req == LocationRequest(op, id)
           h   == AuthHeaders(OptionHeaders(req.form))
       IN  apiCall' =
             [client |-> "fetch", op |-> op, id |-> id, req |-> req, headers |-> h,
              stage |-> IF SdkFetchAvailable THEN "sdk" ELSE "fetch",
              sent |-> IF SdkFetchAvailable THEN <<>>
                       ELSE <<HttpRequest("fetch", req, FallbackHeaders(h))>>,
              sdkThrew |-> FALSE, result |-> "pending"]
    /\ lastOp' = "locationCall"
    /\ UNCHANGED apiRest

\* locationService.<op>(id) of WixSettingsPanel.tsx up to its await
AxiosLocationCall(op, id) ==
    /\ apiCall.stage \in {"none", "done"}
    /\ nCalls < MaxCalls
    /\ nCalls' = nCalls + 1
    /\ LET req == LocationRequest(op, id)
           h   == AxiosHeaders(req.form)
       IN  apiCall' =
             [client |-> "axios", op |-> op, id |-> id, req |-> req, headers |-> h,
              stage |-> "axios", sent |-> <<HttpRequest("axios", req, h)>>,
              sdkThrew |-> FALSE, result |-> "pending"]
    /\ lastOp' = "axiosLocationCall"
    /\ UNCHANGED apiRest

\* what the caller gets for a response: its JSON, or Error('API Error ..')
ResponseResult(ok) == IF ok THEN "json" ELSE "apiError"

\* await wixClient.fetchWithAuth(url, fetchOptions) settles: with a response,
\* or with an error raised before or after the request went out; on an error
\* fetchWithAuth goes on to the plain fetch
SdkFetchReturn(outcome, ok) ==
    /\ apiCall.stage = "sdk"
    /\ LET viaSdk   == HttpRequest("sdk", apiCall.req, apiCall.headers)
           viaFetch == HttpRequest("fetch", apiCall.req, FallbackHeaders(apiCall.headers))
       IN  apiCall' =
             IF outcome = "response"
             THEN [apiCall EXCEPT !.sent = Append(@, viaSdk), !.stage = "done",
                                  !.result = ResponseResult(ok)]
             ELSE [apiCall EXCEPT
                     !.sent = (IF outcome = "throwAfterSend" THEN Append(@, viaSdk) ELSE @)
                              \o <<viaFetch>>,
                     !.stage = "fetch", !.sdkThrew = TRUE]
    /\ lastOp' = "sdkFetchReturn"
    /\ UNCHANGED <<apiRest, nCalls>>

\* the plain fetch settles: with a response, or rejected
FetchReturn(rejected, ok) ==
    /\ apiCall.stage = "fetch"
    /\ apiCall' = [apiCall EXCEPT !.stage = "done",
                     !.result = IF rejected THEN "rejected" ELSE ResponseResult(ok)]
    /\ lastOp' = "fetchReturn"
    /\ UNCHANGED <<apiRest, nCalls>>

\* the axios request settles: resolved on a 2xx, rejected otherwise
AxiosReturn(ok) ==
    /\ apiCall.stage = "axios"
    /\ apiCall' = [apiCall EXCEPT !.stage = "done",
                     !.result = IF ok THEN "json" ELSE "rejected"]
    /\ lastOp' = "axiosReturn"
    /\ UNCHANGED <<apiRest, nCalls>>

\* the component ids and instance tokens a caller passes to the setters
SetterCompIds == {SiteCompId, "comp-set"}
SetterTokens == {"url-token"} \cup BearerTokens

\* setCompId(id)
SetCompId(id) ==
    /\ id # compId
    /\ compId' = id
    /\ lastOp' = "setCompId"
    /\ UNCHANGED <<wixClient, instanceToken, isInitialized, initPc, initResult,
                   initThrew, initArg, createCount, genCount,
                   hostVars, pushVars, panelVars, backVars, apiVars>>

\* setInstanceToken(token)
SetInstanceToken(token) ==
    /\ token # instanceToken
    /\ instanceToken' = token
    /\ lastOp' = "setInstanceToken"
    /\ UNCHANGED <<wixClient, compId, isInitialized, initPc, initResult,
                   initThrew, initArg, createCount, genCount,
                   hostVars, pushVars, panelVars, backVars, apiVars>>

\* where the module's initialisation stands when the services are used:
\* "pending" (the auto-initialisation awaits getProp, no compId yet),
\* "failed" (createClient threw, a generated compId) or "ready"
InitPhases == {"pending", "failed", "ready"}

\* the services at each stage of the module's initialisation, in an
\* environment where the SDK's fetchWithAuth and the backend can fail
InitApi ==
    \E phase \in InitPhases :
    /\ faults = {"sdkFetch", "backend"}
    /\ wixClient \in (IF phase = "failed" THEN {0} ELSE {1})
    /\ sdkFetch \in BOOLEAN
    /\ sdkWidget = (phase = "pending")
    /\ instanceToken \in {NULL, "url-token"} \cup BearerTokens
    /\ compId = (CASE phase = "pending" -> NULL
                   [] phase = "failed" -> GeneratedIds[1]
                   [] phase = "ready" -> SiteCompId)
    /\ isInitialized = (phase # "pending")
    /\ initPc = [c \in Callers |->
                   IF phase # "pending" THEN "done"
                   ELSE IF c = "auto" THEN "getProp" ELSE "idle"]
    /\ initResult = [c \in Callers |->
                       CASE phase = "pending" -> "none"
                         [] phase = "failed" -> "false"
                         [] phase = "ready" -> "true"]
    /\ initThrew = [c \in Callers |-> IF phase = "failed" THEN {"createClient"} ELSE {}]
    /\ initArg = [c \in Callers |-> NULL]
    /\ createCount = (CASE phase = "pending" -> 1
                        [] phase = "failed" -> 2
                        [] phase = "ready" -> 1)
    /\ genCount = (IF phase = "failed" THEN 1 ELSE 0)
    /\ siteProps = [compId |-> IF phase = "failed" THEN NULL ELSE SiteCompId,
                    config |-> NoItem]
    /\ widgetMsg = NoMsg
    /\ serverConfig = DefaultConfig
    /\ inflight = {}
    /\ config = serverConfig
    /\ localStorage = JSONstringify(serverConfig)
    /\ loading = FALSE
    /\ saving = FALSE
    /\ dashboardUrl = [base |-> BaseUrl,
                       query |-> IF phase = "pending" THEN <<>>
                                 ELSE << <<"compId", compId>> >>]
    /\ toast = "none"
    /\ saveCfg = DefaultConfig
    /\ saveLog = <<>>
    /\ pushes = <<>>
    /\ lastOp = (IF phase = "pending" THEN "load" ELSE "fetchConfigOk")
    /\ lastPush = NoPush
    /\ lastStarted = NoPush
    /\ inOrder = TRUE
    /\ pushFailed = FALSE
    /\ nEdits = 0
    /\ nSaves = 0
    /\ changedInSave = FALSE
    /\ confirmed = {localStorage}
    /\ apiCall = NoCall
    /\ nCalls = 0
    /\ urlCall = NoUrlCall

NextApi ==
    \/ \E op \in LocationOps : \E id \in IdsOf(op) : LocationCall(op, id)
    \/ \E op \in LocationOps : \E id \in IdsOf(op) : AxiosLocationCall(op, id)
    \/ \E outcome \in {"response"} \cup
                      {o \in {"throwBeforeSend", "throwAfterSend"} :
                          TRUE \in Throws("sdkFetch")},
          failed \in Throws("backend") : SdkFetchReturn(outcome, ~failed)
    \/ \E rejected \in Throws("backend"), failed \in Throws("backend") :
          FetchReturn(rejected, ~failed)
    \/ \E failed \in Throws("backend") : AxiosReturn(~failed)
    \/ \E id \in SetterCompIds : SetCompId(id)
    \/ \E token \in SetterTokens : SetInstanceToken(token)

SpecApi == InitApi /\ [][NextApi]_vars

----------------------------------------------------------------------------
(* wix-integration.ts: getDashboardUrl                                      *)

\* a URL text is the sequence of its parts: the origin, then "/" when a path
\* is written, then "?" name "=" value ("&" name "=" value)* when it has a query
Origin == "https://mapsy-dashboard.nextechspires.com"

\* the default of the baseUrl parameter
DefaultBaseUrl == <<Origin, "/">>

\* the base URLs getDashboardUrl is called with: the default, the same
\* without its trailing slash, and one that has a compId parameter already
BaseUrls ==
    {DefaultBaseUrl, <<Origin>>, DefaultBaseUrl \o <<"?", "compId", "=", "comp-old">>}

\* application/x-www-form-urlencoded: a space is written as '+'
UrlEncode(str) == IF str = "Bearer url-token" THEN "Bearer+url-token" ELSE str
UrlDecode(str) == IF str = "Bearer+url-token" THEN "Bearer url-token" ELSE str

\* new URL(text): origin, pathname ("/" when the text has no path) and the
\* decoded search parameters
NewURL(text) ==
    LET hasPath == Len(text) >= 2 /\ text[2] = "/"
        qpos    == IF hasPath THEN 3 ELSE 2
        npairs  == (Len(text) - qpos + 1) \div 4
    IN  [origin   |-> text[1],
         pathname |-> "/",
         query    |-> [n \in 1..npairs |->
                         <<UrlDecode(text[qpos + 4 * (n - 1) + 1]),
                           UrlDecode(text[qpos + 4 * (n - 1) + 3])>>]]

\* url.toString(): the serialised URL
URLtoString(url) ==
    LET F[i \in 0..Len(url.query)] ==
            IF i = 0 THEN <<url.origin, url.pathname>>
            ELSE F[i-1] \o <<IF i = 1 THEN "?" ELSE "&",
                             UrlEncode(url.query[i][1]), "=", UrlEncode(url.query[i][2])>>
    IN  F[Len(url.query)]

\* mutant: the parameter appended without a look at the ones present
SearchParamsSet_Append(query, name, value) == Append(query, <<name, value>>)

\* url.searchParams.set(name, value): the first parameter of that name gets
\* the value and the others of that name are removed; appended when absent
SearchParamsSet(query, name, value) ==
    LET named == {i \in 1..Len(query) : query[i][1] = name}
    IN  IF named = {} THEN Append(query, <<name, value>>)
        ELSE LET first == CHOOSE i \in named : \A j \in named : i <= j
                 keep  == [i \in 1..Len(query) |-> i \notin named \/ i = first]
                 F[i \in 0..Len(query)] ==
                     IF i = 0 THEN <<>>
                     ELSE IF ~keep[i] THEN F[i-1]
                     ELSE Append(F[i-1], IF i = first THEN <<name, value>> ELSE query[i])
             IN  F[Len(query)]

\* getDashboardUrl(baseUrl): the value it returns
DashboardUrlOf(baseUrl) ==
    LET url   == NewURL(baseUrl)
        withI == IF Truthy(instanceToken)
                 THEN [url EXCEPT !.query = SearchParamsSet(@, "instance", instanceToken)]
                 ELSE url
        withC == IF Truthy(compId)
                 THEN [withI EXCEPT !.query = SearchParamsSet(@, "compId", compId)]
                 ELSE withI
    IN  URLtoString(withC)

\* getDashboardUrl(baseUrl)
GetDashboardUrl(baseUrl) ==
    /\ urlCall' = [baseUrl |-> baseUrl, result |-> DashboardUrlOf(baseUrl)]
    /\ lastOp' = "getDashboardUrl"
    /\ UNCHANGED <<intVars, hostVars, pushVars, panelVars, backVars,
                   sdkFetch, apiCall, nCalls>>

NextUrl ==
    \/ \E baseUrl \in BaseUrls : GetDashboardUrl(baseUrl)
    \/ \E id \in SetterCompIds : SetCompId(id)
    \/ \E token \in SetterTokens : SetInstanceToken(token)

SpecUrl == InitApi /\ [][NextUrl]_vars

----------------------------------------------------------------------------
NextInit == \E c \in Callers :
    InitializeWixClient(c) \/ GetPropReturn(c) \/ SetPropReturn(c)

SpecInit == InitIntegration /\ [][NextInit]_vars

\* the earlier version of the integration module
NextInitV2 == \E c \in Callers :
    InitializeWixClientV2(c) \/ GetPropReturn(c) \/ SetPropReturn(c)

SpecInitV2 == InitIntegration /\ [][NextInitV2]_vars

NextPreview ==
    \/ \E u \in ConfigUpdates : UpdateWidgetPreview(u)
    \/ \E i \in 1..MaxOps, threw \in Throws("configProp"), out \in PostOutcomes :
          SetConfigPropReturn(i, threw, out)

SpecPreview == InitPreview /\ [][NextPreview]_vars

NextPanel ==
    \/ \E u \in ConfigUpdates : UpdateWidgetPreview(u)
    \/ HandleSave
    \/ \E failed \in Throws("backend") : SaveBackendReturn(~failed)
    \/ \E i \in 1..MaxOps, threw \in Throws("configProp"), out \in PostOutcomes :
          SetConfigPropReturn(i, threw, out)
    \/ \E failed \in Throws("backend"), auth \in AuthInfos \cup {NoAuth} :
          FetchConfigReturn(~failed, auth)

Next == NextInit \/ NextPanel

Spec == Init /\ [][Next]_vars

----------------------------------------------------------------------------
(* Claims about WidgetSettingsCompact, checked under Spec                  *)

\* C1: every settings edit made through updateWidgetPreview sets the panel's
\* config to the previous config merged with the edited fields and at once
\* starts updateWidgetConfig with that full merged config; the edit issues no
\* backend request, writes nothing to localStorage and does not depend on Save.
C1_EditPushesMergedConfig ==
    [][lastOp' = "updateWidgetPreview" =>
         /\ \E u \in ConfigUpdates :
              /\ DOMAIN config' = (DOMAIN config) \cup (DOMAIN u)
              /\ \A k \in DOMAIN config' :
                   config'[k] = IF k \in DOMAIN u THEN u[k] ELSE config[k]
         /\ lastStarted' = [by |-> "edit", config |-> config']
         /\ \/ pushes' = Append(pushes, [by |-> "edit", config |-> config'])
            \/ /\ pushes' = pushes
               /\ lastPush'.by = "edit"
               /\ lastPush'.config = config'
         /\ inflight' = inflight
         /\ localStorage' = localStorage
         /\ serverConfig' = serverConfig
         /\ confirmed' = confirmed
         /\ saving' = saving
         /\ nSaves' = nSaves
    ]_vars

\* an edit made before any Save whose merged config is on its way to the widget
\* and is not a config the backend knows
C1_Witness ==
    /\ lastOp = "updateWidgetPreview"
    /\ nSaves = 0
    /\ Len(pushes) = 1
    /\ pushes[1].config = config
    /\ JSONstringify(config) \notin confirmed

SaveLogSuccess == <<"updateConfig", "updateWidgetConfig", "setItem", "toast.success">>
SaveLogFailure == <<"updateConfig", "toast.error">>

\* C2: handleSave runs backend updateConfig, then the updateWidgetConfig push,
\* then the localStorage write, then the success toast; if the backend save
\* rejects there is no push, no localStorage write and no success toast, and
\* the error toast 'Failed to save settings' is shown.
C2_SaveOrder ==
    [][ /\ saveLog' \in {<<>>, SubSeq(SaveLogSuccess, 1, 1), SubSeq(SaveLogSuccess, 1, 2),
                        SaveLogSuccess, SaveLogFailure}
        /\ lastOp' = "handleSave" =>
              /\ UpdateConfigReq(config) \in inflight'
              /\ UNCHANGED <<pushes, lastStarted, lastPush, widgetMsg, localStorage, toast>>
        /\ lastOp' = "saveBackendFailed" =>
              /\ toast' = "Failed to save settings"
              /\ ~saving'
              /\ saveLog' = SaveLogFailure
              /\ UNCHANGED <<pushes, lastStarted, lastPush, widgetMsg, siteProps,
                             localStorage>>
        /\ (lastStarted'.by = "save" /\ lastStarted' # lastStarted) =>
              lastOp' = "saveBackendOk"
        /\ lastOp' = "saveBackendOk" =>
              /\ lastStarted' = [by |-> "save", config |-> saveCfg]
              /\ saving' => UNCHANGED <<localStorage, toast>>
        /\ (saving /\ ~saving' /\ lastOp' # "saveBackendFailed") =>
              /\ lastPush'.by = "save"
              /\ lastPush'.config = saveCfg
              /\ localStorage' = JSONstringify(saveCfg)
              /\ toast' = "Settings saved!"
              /\ saveLog' = SaveLogSuccess
    ]_vars

\* a save that went through all four steps, the push having waited on the SDK
C2_Witness ==
    /\ saveLog = SaveLogSuccess
    /\ lastOp = "setConfigPropReturn"
    /\ lastPush.by = "save"
    /\ toast = "Settings saved!"
    /\ localStorage = JSONstringify(saveCfg)

\* C3: the value this panel keeps in localStorage under 'mapsy-widget-config'
\* is always a config the backend has confirmed: the data of a successful
\* getConfig or the config passed to an updateConfig call that resolved.
C3_CacheConfirmed == localStorage = NoItem \/ localStorage \in confirmed

\* a save wrote the cache while the panel shows a later, unsaved edit
C3_Witness ==
    /\ nSaves > 0
    /\ nEdits > 0
    /\ toast = "Settings saved!"
    /\ localStorage = JSONstringify(saveCfg)
    /\ JSONstringify(config) \notin confirmed

\* handleSave has just completed successfully
SaveJustCompleted ==
    /\ nSaves > 0
    /\ ~saving
    /\ toast = "Settings saved!"
    /\ lastPush.by = "save"
    /\ lastOp \in {"saveBackendOk", "setConfigPropReturn"}

\* C9 as claimed: after a successful handleSave the saved, pushed and cached
\* configs and the panel's current config are all equal, edits made while the
\* save was in flight included.
C9_AllEqualAfterSave ==
    SaveJustCompleted =>
        /\ serverConfig = Stored(JSONstringify(config))
        /\ lastPush.config = config
        /\ localStorage = JSONstringify(config)
        /\ saveCfg = config

\* C10 as claimed: once updateWidgetPreview has changed a field, no later
\* completion of fetchConfig replaces the panel's config.
C10_EditSurvivesFetch ==
    [][(nEdits > 0 /\ lastOp' = "fetchConfigOk") => config' = config]_vars

----------------------------------------------------------------------------
(* Claims about locationService, checked under SpecApi                     *)

\* method and path the claim names for each operation
ClaimedMethod(op) ==
    CASE op \in {"getAll", "getOne"} -> "GET"
      [] op \in {"create", "update"} -> "POST"
      [] op = "delete" -> "DELETE"

ClaimedUrl(op, id) ==
    IF op \in {"getAll", "create"} THEN <<API_URL, "/locations">>
    ELSE <<API_URL, "/locations/", id>>

\* every request the call has issued carries the claimed method and path
AsClaimed(call) ==
    \A i \in 1..Len(call.sent) :
        /\ call.sent[i].method = ClaimedMethod(call.op)
        /\ call.sent[i].url = ClaimedUrl(call.op, call.id)

\* C4 as claimed: each locationService operation issues exactly one HTTP
\* request, with the fixed method and path of the operation and the caller's
\* id in the path.
C4_ExactlyOneRequest ==
    apiCall.stage = "done" => (Len(apiCall.sent) = 1 /\ AsClaimed(apiCall))

\* C4 as amended: every request a locationService operation issues carries
\* the fixed method and path of the operation with the caller's id; the axios
\* version issues exactly one request; the fetchWithAuth version issues one
\* request, or, when the SDK's fetchWithAuth threw, the plain-fetch retry
\* preceded by at most one request the SDK sent before it threw.
C4_OneRequestPerChannel ==
    apiCall.stage # "none" =>
        /\ AsClaimed(apiCall)
        /\ apiCall.stage = "done" =>
              /\ Len(apiCall.sent) \in {1, 2}
              /\ apiCall.client = "axios" => Len(apiCall.sent) = 1
              /\ ~apiCall.sdkThrew => Len(apiCall.sent) = 1
              /\ apiCall.sdkThrew => apiCall.sent[Len(apiCall.sent)].via = "fetch"
              /\ Len(apiCall.sent) = 2 =>
                    /\ apiCall.sdkThrew
                    /\ apiCall.sent[1].via = "sdk"

\* an update whose SDK request went out before the SDK threw and that was
\* sent again by plain fetch: two POST /locations/{id}
C4_Witness ==
    /\ apiCall.stage = "done"
    /\ apiCall.op = "update"
    /\ apiCall.id = "8"
    /\ Len(apiCall.sent) = 2
    /\ \A i \in 1..2 : /\ apiCall.sent[i].method = "POST"
                       /\ apiCall.sent[i].url = <<API_URL, "/locations/", "8">>

----------------------------------------------------------------------------
(* Claims about initializeWixClient                                        *)

\* the calls of initializeWixClient that have completed
Completed == {c \in Callers : initPc[c] = "done"}

\* C5 as claimed: initializeWixClient never rejects; if createClient or any
\* SDK call threw, the call resolved to false; after any completed call compId
\* is non-null and isInitialized is true.
C5_AnyThrowResolvesFalse ==
    \A c \in Completed :
        /\ initResult[c] \in {"true", "false"}
        /\ initThrew[c] # {} => initResult[c] = "false"
        /\ Truthy(compId)
        /\ isInitialized

\* C5 as amended: initializeWixClient never rejects; it resolves to false
\* exactly when createClient threw, and a throw of getProp or setProp alone is
\* swallowed and leaves the result true; after any completed call compId is
\* non-null and isInitialized is true.
C5_OnlyCreateClientResolvesFalse ==
    \A c \in Completed :
        /\ initResult[c] \in {"true", "false"}
        /\ initResult[c] = "false" <=> "createClient" \in initThrew[c]
        /\ Truthy(compId)
        /\ isInitialized

\* a call during which getProp and setProp both threw and which resolved true
\* with a generated compId
C5_Witness ==
    \E c \in Completed :
        /\ initThrew[c] = {"getProp", "setProp"}
        /\ initResult[c] = "true"
        /\ \E i \in 1..Len(GeneratedIds) : compId = GeneratedIds[i]
        /\ isInitialized

\* C8: during one page load createClient is invoked at most once, also when
\* the mount effect calls initializeWixClient while the auto-initialisation
\* is still in progress.
C8_SingleCreateClient == createCount <= 1

----------------------------------------------------------------------------
(* Claims about updateWidgetConfig, checked under SpecPreview              *)

\* C6: whatever the outcome of setProp('config', ..) (resolved, threw,
\* unavailable), updateWidgetConfig posts a MAPSY_CONFIG_UPDATE message
\* carrying the given config; it returns true whenever the posting step did
\* not throw and the SDK result only when posting threw.
C6_PostsRegardlessOfSdk ==
    lastPush # NoPush =>
        /\ lastPush.sdk \in {"ok", "throw", "unavailable"}
        /\ ~lastPush.postThrew =>
              /\ lastPush.posted.type = "MAPSY_CONFIG_UPDATE"
              /\ lastPush.posted.config = lastPush.config
              /\ lastPush.returned = TRUE
        /\ lastPush.postThrew =>
              /\ lastPush.posted = NoMsg
              /\ lastPush.returned = (lastPush.sdk = "ok")

\* setProp threw, the message was posted all the same and the call returned true
C6_Witness ==
    /\ lastPush # NoPush
    /\ lastPush.sdk = "throw"
    /\ ~lastPush.postThrew
    /\ lastPush.posted.config = lastPush.config
    /\ widgetMsg.type = "MAPSY_CONFIG_UPDATE"
    /\ lastPush.returned = TRUE

\* C7: once all updateWidgetConfig calls started by the edits have completed
\* without error, the widget's SDK props and the last MAPSY_CONFIG_UPDATE
\* message it received hold the panel's current config, whatever the order in
\* which the overlapping setProp calls resolved.
C7_LastEditWins ==
    (nEdits > 0 /\ pushes = <<>> /\ ~pushFailed) =>
        /\ widgetMsg.type = "MAPSY_CONFIG_UPDATE"
        /\ widgetMsg.config = config
        /\ siteProps.config = JSONstringify(config)

----------------------------------------------------------------------------
(* Claims about the request headers, checked under SpecApi                 *)

\* the call under way or completed last went through apiFormDataRequest
FormDataCall ==
    /\ apiCall.stage # "none"
    /\ apiCall.client = "fetch"
    /\ apiCall.op \in {"create", "update"}

\* C11: a FormData request (locationService.create / update through
\* apiFormDataRequest) goes out without a Content-Type header set by the code;
\* the only headers the code adds are X-Wix-Comp-Id and, on the fallback
\* path, Authorization.
C11_FormDataNoContentType ==
    FormDataCall =>
        \A i \in 1..Len(apiCall.sent) :
            /\ "Content-Type" \notin DOMAIN apiCall.sent[i].headers
            /\ DOMAIN apiCall.sent[i].headers \subseteq
                  (IF apiCall.sent[i].via = "fetch"
                   THEN {"X-Wix-Comp-Id", "Authorization"}
                   ELSE {"X-Wix-Comp-Id"})

----------------------------------------------------------------------------
(* Claims about initializeWixClient, continued                             *)

\* C12: in the earlier version of the module (checked under SpecInitV2) the
\* result of initializeWixClient tells whether the Wix SDK was initialised:
\* a call that completes while no client has been created resolved to false,
\* calls made after a failed attempt included.
C12_ResultReportsClient ==
    \A c \in Completed : wixClient = 0 => initResult[c] = "false"

\* C13: whenever a call of initializeWixClient has resolved to true, the
\* compId held by the module (getCompId) equals the 'compId' prop stored in
\* the widget's site data.
C13_CompIdSavedToSiteData ==
    \A c \in Completed :
        initResult[c] = "true" => compId = siteProps.compId

\* C14: a call whose getProp('compId') returned a non-empty value adopts
\* that value, generates no compId and issues no setProp('compId', ..); and
\* over one page load, overlapping and repeated calls included, generateCompId
\* runs at most once.
C14_AdoptsAndGeneratesOnce ==
    [][ /\ genCount' <= 1
        /\ \A c \in Callers :
             ( /\ initPc[c] = "getProp"
               /\ initPc'[c] # "getProp"
               /\ "getProp" \notin initThrew'[c]
               /\ Truthy(siteProps.compId) ) =>
                  /\ compId' = siteProps.compId
                  /\ genCount' = genCount
                  /\ initPc'[c] = "done"
                  /\ initArg' = initArg
                  /\ siteProps' = siteProps
    ]_vars

\* the first call fell back to a generated compId, the second one read the
\* compId of the site data and adopted it without generating another
C14_Witness ==
    /\ Completed = Callers
    /\ genCount = 1
    /\ compId = SiteCompId
    /\ siteProps.compId = SiteCompId
    /\ \E c \in Callers : initResult[c] = "true" /\ initThrew[c] = {}

\* C15: once a call of initializeWixClient has resolved to true, every call
\* made afterwards resolves to true at once, without calling createClient,
\* getProp or setProp, and leaves wixClient, compId and instanceToken as they
\* were.
C15_IdempotentAfterSuccess ==
    [][ \A c \in Callers :
          ( /\ initPc[c] = "idle"
            /\ initPc'[c] # "idle"
            /\ \E d \in Completed : initResult[d] = "true" ) =>
               /\ initPc'[c] = "done"
               /\ initResult'[c] = "true"
               /\ UNCHANGED <<wixClient, compId, instanceToken, isInitialized,
                              createCount, genCount, siteProps, initThrew, initArg>>
    ]_vars

\* the second call was made after the first had resolved true and returned
\* true with the one client created by the first
C15_Witness ==
    /\ lastOp = "initializeWixClient"
    /\ Completed = Callers
    /\ \A c \in Callers : initResult[c] = "true"
    /\ createCount = 1
    /\ wixClient = 1


\* headers h carry X-Wix-Comp-Id exactly when component id c is non-null,
\* with c as its value
CompIdHeaderIs(h, c) ==
    IF c = NULL THEN "X-Wix-Comp-Id" \notin DOMAIN h
    ELSE "X-Wix-Comp-Id" \in DOMAIN h /\ h["X-Wix-Comp-Id"] = c

\* the X-Wix-Comp-Id part of headers h
CompIdPart(h) == IF "X-Wix-Comp-Id" \in DOMAIN h THEN h["X-Wix-Comp-Id"] ELSE NULL

\* C16: every backend request carries X-Wix-Comp-Id if and only if compId is
\* non-null when the request's headers are built (on entry to fetchWithAuth, or
\* in the axios interceptor), with the compId of that moment as its value; the
\* request through the SDK and the fallback request through plain fetch both
\* carry the headers built then.
C16_CompIdHeader ==
    [][ /\ nCalls' = nCalls + 1 => CompIdHeaderIs(apiCall'.headers, compId)
        /\ apiCall'.stage # "none" =>
             \A i \in 1..Len(apiCall'.sent) :
                 CompIdPart(apiCall'.sent[i].headers) = CompIdPart(apiCall'.headers)
      ]_vars

\* a fallback request after the SDK threw, carrying the id given to setCompId,
\* and an earlier or later request built while compId was null is covered by
\* the pending phase
C16_Witness ==
    /\ apiCall.stage = "done"
    /\ apiCall.client = "fetch"
    /\ apiCall.sdkThrew
    /\ \A i \in 1..Len(apiCall.sent) :
           CompIdPart(apiCall.sent[i].headers) = "comp-set"
    /\ Len(apiCall.sent) = 2

\* the requests of the current call that went through plain fetch
FetchRequests(call) == SelectSeq(call.sent, LAMBDA r : r.via = "fetch")

\* a string as its 'Bearer ' prefix, where it has one, and the rest
Pieces(str) == IF str = "Bearer url-token" THEN <<"Bearer ", "url-token">> ELSE <<str>>

\* the text of a header value built from several strings
RECURSIVE Flatten(_)
Flatten(value) == IF value = <<>> THEN <<>> ELSE Pieces(Head(value)) \o Flatten(Tail(value))

\* text is 'Bearer ' followed by token tok without a prefix of its own
BearerOnce(text, tok) ==
    /\ Head(text) = "Bearer "
    /\ Tail(text) = (IF Head(Pieces(tok)) = "Bearer " THEN Tail(Pieces(tok)) ELSE Pieces(tok))
    /\ "Bearer " \notin {Tail(text)[i] : i \in 1..Len(Tail(text))}

\* the plain fetch request r is for the call's URL and carries Authorization
\* exactly when the instance token is non-null, as 'Bearer <token>'
FetchAsClaimed(call, r) ==
    /\ r.url = Url(call.req.endpoint)
    /\ r.method = call.req.method
    /\ IF instanceToken = NULL THEN "Authorization" \notin DOMAIN r.headers
       ELSE /\ "Authorization" \in DOMAIN r.headers
            /\ BearerOnce(Flatten(r.headers["Authorization"]), instanceToken)

\* C17: fetchWithAuth tries wixClient.fetchWithAuth first, when the client has
\* it, and issues no plain fetch while that attempt is pending or when it
\* resolved; when it is unavailable or throws, plain fetch is called exactly
\* once, for the same URL, with Authorization if and only if instanceToken is
\* non-null, as 'Bearer <token>' with the prefix exactly once.
C17_SdkFirstFallbackOnce ==
    [][ /\ (nCalls' = nCalls + 1 /\ apiCall'.client = "fetch") =>
             IF SdkFetchAvailable
             THEN apiCall'.stage = "sdk" /\ apiCall'.sent = <<>>
             ELSE /\ apiCall'.stage = "fetch"
                  /\ Len(apiCall'.sent) = 1
                  /\ apiCall'.sent[1].via = "fetch"
                  /\ FetchAsClaimed(apiCall', apiCall'.sent[1])
        /\ apiCall.stage = "sdk" /\ apiCall' # apiCall =>
             IF apiCall'.sdkThrew
             THEN /\ apiCall'.stage = "fetch"
                  /\ Len(FetchRequests(apiCall')) = 1
                  /\ FetchAsClaimed(apiCall', FetchRequests(apiCall')[1])
             ELSE /\ apiCall'.stage = "done"
                  /\ apiCall'.result \in {"json", "apiError"}
                  /\ FetchRequests(apiCall') = <<>>
        /\ apiCall.stage = "fetch" /\ apiCall' # apiCall /\ nCalls' = nCalls =>
             /\ apiCall'.stage = "done"
             /\ apiCall'.sent = apiCall.sent
      ]_vars

\* the SDK's fetchWithAuth threw and the fallback went out once, with a token
\* that already starts with 'Bearer '
C17_Witness ==
    /\ apiCall.stage = "done"
    /\ apiCall.client = "fetch"
    /\ apiCall.sdkThrew
    /\ instanceToken \in BearerTokens
    /\ Len(FetchRequests(apiCall)) = 1
    /\ FetchRequests(apiCall)[1].headers["Authorization"] = <<instanceToken>>

\* the values of the parameters called name, in order
ParamValues(query, name) ==
    LET F[i \in 0..Len(query)] ==
            IF i = 0 THEN <<>>
            ELSE IF query[i][1] = name THEN Append(F[i-1], query[i][2]) ELSE F[i-1]
    IN  F[Len(query)]

\* the step is a getDashboardUrl call whose result has parameter name set to
\* value when value is non-null and as the base URL had it when value is null,
\* on the base URL's origin, and the module's state is as before
ParamsAsClaimed ==
    LET res == NewURL(urlCall'.result)
        was == NewURL(urlCall'.baseUrl)
        SetIff(name, value) ==
            ParamValues(res.query, name) =
                IF value # NULL THEN <<value>> ELSE ParamValues(was.query, name)
    IN  /\ res.origin = was.origin
        /\ SetIff("instance", instanceToken)
        /\ SetIff("compId", compId)
        /\ UNCHANGED <<wixClient, instanceToken, compId, isInitialized>>

====
